---------------------------- MODULE Spec2Model ----------------------------
(***************************************************************************)
(* Letter Crush (src/main.py): a falling-letter match game.  The main      *)
(* thread runs GameBoard.play: render, take one key from the queue, run    *)
(* its move.  A drop places the current letter in the cursor column and    *)
(* resolves the cascade by the mutually recursive methods                  *)
(* check_and_destroy_matches and drop_supported.  The keyboard listener    *)
(* thread runs _on_press, which only appends valid keys to the queue.      *)
(*                                                                         *)
(* Row 0 is the top of the board and row height-1 the bottom.  The Python  *)
(* call stack of a cascade is the variable stack: one frame per running    *)
(* "for cell in new_candidates" loop (the frame of drop_letter holds the   *)
(* single cell it passes to the first call).                               *)
(***************************************************************************)
EXTENDS Integers, Sequences, FiniteSets, TLC

VARIABLES width, height, destroy_count, alphabet, max_turn, max_queue,
          board, cursor, current_letter, turn, score,
          queue, pc, stack,
          start_score, start_count, log, placed, last_drop, clamped

vars == <<width, height, destroy_count, alphabet, max_turn, max_queue,
          board, cursor, current_letter, turn, score, queue, pc, stack,
          start_score, start_count, log, placed, last_drop, clamped>>

\* History, for stating properties.  Of the drop in progress (or the last
\* one): start_score is the score when drop_letter was entered, last_drop
\* tells whether it placed its letter ("placed") or found the column full
\* ("full"), and log lists, for every call of check_and_destroy_matches
\* that destroyed something, its cell, its set destroyed, its depth and its
\* list new_candidates; start_count is the number of letters on the board
\* when drop_letter was entered.  placed counts the letters placed so far.
\* clamped tells that the command applied since the last render was a cursor
\* move at the edge of the board, which left the cursor where it was.
drop_hist == <<start_score, start_count, log, placed, last_drop>>

hist == <<drop_hist, clamped>>

\* Fixed at construction: the constructor's arguments and the limits of the run.
params == <<width, height, destroy_count, alphabet, max_turn, max_queue>>

(* ------------------------------ constants ------------------------------ *)

LETTERS == {"A", "B", "C"}

Empty == "_"

\* The keys of self._valid_moves.
ValidMoves == {"h", "l", "i", "x"}

\* Keys the listener may see: the four valid characters, some other
\* character, and a special key (one without a char attribute).
Keys == ValidMoves \cup {"z", "special"}

(* ------------------------------- bounds -------------------------------- *)

\* Most keys waiting in the queue at once.
MaxQueue == 2

\* Most successful drops in one game.
MaxTurn == 5

\* The queue limit of the fairness and deep-cascade specifications, and the
\* drop limit of the latter.
MaxQueueLow == 1

MaxTurnDeep == 10

\* The drop limits of the tall-board and of the tie-order specifications.
MaxTurnTall == 11

MaxTurnTies == 8

\* Constructor arguments <<width, height, destroy_count>> of the games
\* explored: a single row, a single column, and a board where cascades occur.
Configs == { <<5, 1, 3>>, <<1, 4, 3>>, <<2, 3, 2>> }

\* The board of the deep-cascade specification.
DeepConfigs == { <<3, 4, 3>> }

\* A board tall enough for a column to hold a run of destroy_count + 1 cells
\* under a cell that gravity refills.
TallConfigs == { <<3, 5, 3>> }

\* A board where one call destroys two cells of one row whose columns both
\* hold letters above them.
TiesConfigs == { <<3, 4, 2>> }

(* --------------------------- pure functions ---------------------------- *)

Cells == (0 .. width - 1) \X (0 .. height - 1)

\* build_board: every in-range coordinate, all empty.
BuildBoard(w, h) == [c \in (0 .. w - 1) \X (0 .. h - 1) |-> Empty]

\* Mutant: only the cell at x is looked at, not the cells to its left.
LookLeftNoScan(b, left, y, letter) == left - 1

\* "Look left": first column to the left of x, on row y, that does not hold letter.
RECURSIVE LookLeft(_, _, _, _)
LookLeft(b, left, y, letter) ==
    IF left >= 0 /\ b[<<left, y>>] = letter
    THEN LookLeft(b, left - 1, y, letter)
    ELSE left

RECURSIVE LookRight(_, _, _, _)
LookRight(b, right, y, letter) ==
    IF right < width /\ b[<<right, y>>] = letter
    THEN LookRight(b, right + 1, y, letter)
    ELSE right

\* Mutant: an if where the while belongs, so at most one cell is counted.
LookDownOnce(b, x, down, letter) ==
    IF down < height /\ b[<<x, down>>] = letter THEN down + 1 ELSE down

RECURSIVE LookDown(_, _, _, _)
LookDown(b, x, down, letter) ==
    IF down < height /\ b[<<x, down>>] = letter
    THEN LookDown(b, x, down + 1, letter)
    ELSE down

\* Mutant: the horizontal window must exceed destroy_count cells.
HorizontalQualifiesStrict(left, right) == right - left > destroy_count + 1

\* "Confirm windows of matches": the horizontal window is open on both
\* sides (left and right are the first non-matching columns).
HorizontalQualifies(left, right) == right - left > destroy_count

\* Mutant: the vertical window must exceed destroy_count cells.
VerticalQualifiesStrict(y, down) == down - y > destroy_count

\* The vertical window is closed at y and open at down.
VerticalQualifies(y, down) == down - y >= destroy_count

\* Mutant: the vertical window is tested only when the horizontal one fails.
DestroyedEitherOr(b, x, y, letter) ==
    LET left  == LookLeft(b, x, y, letter)
        right == LookRight(b, x, y, letter)
        down  == LookDown(b, x, y, letter)
    IN  IF HorizontalQualifies(left, right)
        THEN {<<i, y>> : i \in left + 1 .. right - 1}
        ELSE IF VerticalQualifies(y, down)
             THEN {<<x, j>> : j \in y .. down - 1} ELSE {}

\* Mutant: the horizontal window is taken closed on the left, range(left, right).
DestroyedClosedWindow(b, x, y, letter) ==
    LET left  == LookLeft(b, x, y, letter)
        right == LookRight(b, x, y, letter)
        down  == LookDown(b, x, y, letter)
    IN  (IF HorizontalQualifies(left, right)
         THEN {<<i, y>> : i \in left .. right - 1} ELSE {})
        \cup
        (IF VerticalQualifies(y, down)
         THEN {<<x, j>> : j \in y .. down - 1} ELSE {})

\* The set `destroyed` of one call check_and_destroy_matches(x, y, letter).
Destroyed(b, x, y, letter) ==
    LET left  == LookLeft(b, x, y, letter)
        right == LookRight(b, x, y, letter)
        down  == LookDown(b, x, y, letter)
    IN  (IF HorizontalQualifies(left, right)
         THEN {<<i, y>> : i \in left + 1 .. right - 1} ELSE {})
        \cup
        (IF VerticalQualifies(y, down)
         THEN {<<x, j>> : j \in y .. down - 1} ELSE {})

\* Mutant: the cascade multiplier is left out.
ScoreGainFlat(n, depth) == 10 * n

\* Mutant: the gain is taken off the score.
ScoreGainNegative(n, depth) == 0 - 10 * n * depth

\* "Update score".
ScoreGain(n, depth) == 10 * n * depth

\* The depth passed to the checks of the cells a call at `depth` disturbed.
NextDepth(depth) == depth + 1

\* Mutant: the destroyed cell is emptied and nothing above it falls.
DropSupportedNoFall(b, d_cell) ==
    [board |-> [b EXCEPT ![d_cell] = Empty], cands |-> <<>>]

\* Mutant: the topmost cell of the falling stack is not emptied.
RECURSIVE DropSupportedNoClear(_, _)
DropSupportedNoClear(b, d_cell) ==
    LET x      == d_cell[1]
        curr_y == d_cell[2]
        next_y == curr_y - 1
    IN  IF curr_y = 0 \/ b[<<x, next_y>>] = Empty
        THEN [board |-> b, cands |-> <<>>]
        ELSE LET r == DropSupportedNoClear([b EXCEPT ![<<x, curr_y>>] = b[<<x, next_y>>]],
                                           <<x, next_y>>)
             IN  [board |-> r.board, cands |-> <<d_cell>> \o r.cands]

\* Mutant: the letters above the destroyed cell are removed with it.
DropSupportedClearsStack(b, d_cell) ==
    [board |-> [c \in DOMAIN b |->
                   IF c[1] = d_cell[1] /\ c[2] <= d_cell[2] THEN Empty ELSE b[c]],
     cands |-> <<>>]

\* Mutant: only the letter directly above falls; the rest of the stack stays.
DropSupportedOneStep(b, d_cell) ==
    LET x      == d_cell[1]
        curr_y == d_cell[2]
        next_y == curr_y - 1
    IN  IF curr_y = 0 \/ b[<<x, next_y>>] = Empty
        THEN [board |-> [b EXCEPT ![<<x, curr_y>>] = Empty], cands |-> <<>>]
        ELSE [board |-> [b EXCEPT ![<<x, curr_y>>] = b[<<x, next_y>>],
                                  ![<<x, next_y>>] = Empty],
              cands |-> <<d_cell>>]

\* Mutant: the recursion's cells are listed before the given cell.
RECURSIVE DropSupportedFarthestFirst(_, _)
DropSupportedFarthestFirst(b, d_cell) ==
    LET x      == d_cell[1]
        curr_y == d_cell[2]
        next_y == curr_y - 1
    IN  IF curr_y = 0 \/ b[<<x, next_y>>] = Empty
        THEN [board |-> [b EXCEPT ![<<x, curr_y>>] = Empty], cands |-> <<>>]
        ELSE LET r == DropSupportedFarthestFirst(
                          [b EXCEPT ![<<x, curr_y>>] = b[<<x, next_y>>]], <<x, next_y>>)
             IN  [board |-> r.board, cands |-> r.cands \o <<d_cell>>]

\* drop_supported(d_cell) on board b: the board afterwards and the returned list.
RECURSIVE DropSupported(_, _)
DropSupported(b, d_cell) ==
    LET x      == d_cell[1]
        curr_y == d_cell[2]
        next_y == curr_y - 1
    IN  IF curr_y = 0 \/ b[<<x, next_y>>] = Empty
        THEN [board |-> [b EXCEPT ![<<x, curr_y>>] = Empty], cands |-> <<>>]
        ELSE LET r == DropSupported([b EXCEPT ![<<x, curr_y>>] = b[<<x, next_y>>]],
                                    <<x, next_y>>)
             IN  [board |-> r.board, cands |-> <<d_cell>> \o r.cands]

\* The orders in which sorted(destroyed, key=row) may list the set: rows
\* ascending, cells of one row in the set's iteration order, which the
\* language does not fix.
RECURSIVE SortedOrders(_)
SortedOrders(D) ==
    IF D = {} THEN { <<>> }
    ELSE LET first == {c \in D : \A d \in D : c[2] <= d[2]}
         IN  UNION { { <<c>> \o s : s \in SortedOrders(D \ {c}) } : c \in first }

\* The loop "for d_cell in sorted(destroyed): new_candidates.extend(drop_supported(d_cell))".
RECURSIVE DropAll(_, _)
DropAll(b, order) ==
    IF order = <<>> THEN [board |-> b, cands |-> <<>>]
    ELSE LET r1 == DropSupported(b, Head(order))
             r2 == DropAll(r1.board, Tail(order))
         IN  [board |-> r2.board, cands |-> r1.cands \o r2.cands]

\* Mutant: the letter stays in the top row instead of falling to the lowest empty row.
LandingRowFromTop(b, x, y_check) ==
    IF b[<<x, 0>>] = Empty THEN 0 ELSE -1

\* Mutant: the scan stops at row 0 instead of running off the top.
RECURSIVE LandingRowStopsAtTop(_, _, _)
LandingRowStopsAtTop(b, x, y_check) ==
    IF y_check > 0 /\ b[<<x, y_check>>] # Empty
    THEN LandingRowStopsAtTop(b, x, y_check - 1)
    ELSE y_check

\* drop_letter's scan: the lowest empty row of column x, or -1 when the column is full.
RECURSIVE LandingRow(_, _, _)
LandingRow(b, x, y_check) ==
    IF y_check >= 0 /\ b[<<x, y_check>>] # Empty
    THEN LandingRow(b, x, y_check - 1)
    ELSE y_check

\* One frame of the cascade's call stack: the cells its loop has still to
\* check and the depth it passes on.
Frame(cands, depth) == [cands |-> cands, depth |-> depth]

\* The results drop_letter's cascade can end with when it stands at board b,
\* score sc and call stack st: one <<board, score>> for every way the
\* equal-row cells of each call's destroyed set can be ordered.
RECURSIVE Outcomes(_, _, _)
Outcomes(b, st, sc) ==
    IF st = <<>> THEN { <<b, sc>> }
    ELSE LET top  == st[Len(st)]
             rest == [st EXCEPT ![Len(st)].cands = Tail(top.cands)]
         IN  IF top.cands = <<>>
             THEN Outcomes(b, SubSeq(st, 1, Len(st) - 1), sc)
             ELSE LET cell   == Head(top.cands)
                      letter == b[cell]
                      D      == Destroyed(b, cell[1], cell[2], letter)
                      gain   == ScoreGain(Cardinality(D), top.depth)
                  IN  IF letter = Empty
                      THEN Outcomes(b, rest, sc)
                      ELSE UNION { LET r == DropAll(b, order)
                                   IN  Outcomes(r.board,
                                                IF r.cands = <<>> THEN rest
                                                ELSE Append(rest, Frame(r.cands,
                                                                        NextDepth(top.depth))),
                                                sc + gain)
                                   : order \in SortedOrders(D) }

(* ------------------------- coordinates accessed ------------------------- *)

\* The board is a dict keyed by coordinate: a read of a missing key raises
\* KeyError and ends the trace, a write of a missing key would add it.
\* Each operator below lists the keys one piece of code reads or writes.

\* Keys read by the "look left" loop: one for every left that passes left >= 0.
RECURSIVE LookLeftReads(_, _, _, _)
LookLeftReads(b, left, y, letter) ==
    IF left >= 0
    THEN {<<left, y>>} \cup
         (IF <<left, y>> \in DOMAIN b /\ b[<<left, y>>] = letter
          THEN LookLeftReads(b, left - 1, y, letter) ELSE {})
    ELSE {}

RECURSIVE LookRightReads(_, _, _, _)
LookRightReads(b, right, y, letter) ==
    IF right < width
    THEN {<<right, y>>} \cup
         (IF <<right, y>> \in DOMAIN b /\ b[<<right, y>>] = letter
          THEN LookRightReads(b, right + 1, y, letter) ELSE {})
    ELSE {}

RECURSIVE LookDownReads(_, _, _, _)
LookDownReads(b, x, down, letter) ==
    IF down < height
    THEN {<<x, down>>} \cup
         (IF <<x, down>> \in DOMAIN b /\ b[<<x, down>>] = letter
          THEN LookDownReads(b, x, down + 1, letter) ELSE {})
    ELSE {}

\* Keys read and written by drop_supported(d_cell) and its recursive calls.
RECURSIVE DropSupportedAccesses(_, _)
DropSupportedAccesses(b, d_cell) ==
    LET x      == d_cell[1]
        curr_y == d_cell[2]
        above  == <<x, curr_y - 1>>
    IN  IF curr_y = 0 THEN {d_cell}
        ELSE IF above \notin DOMAIN b THEN {above}
        ELSE IF b[above] = Empty THEN {above, d_cell}
        ELSE {above, d_cell} \cup
             DropSupportedAccesses([b EXCEPT ![d_cell] = b[above]], above)

\* Keys accessed by the loop over sorted(destroyed), taken in the given order.
RECURSIVE DropAllAccesses(_, _)
DropAllAccesses(b, order) ==
    IF order = <<>> THEN {}
    ELSE DropSupportedAccesses(b, Head(order)) \cup
         DropAllAccesses(DropSupported(b, Head(order)).board, Tail(order))

\* Keys read by drop_letter's scan of column x, and the key it writes.
RECURSIVE LandingAccesses(_, _, _)
LandingAccesses(b, x, y_check) ==
    IF y_check >= 0
    THEN {<<x, y_check>>} \cup
         (IF <<x, y_check>> \in DOMAIN b /\ b[<<x, y_check>>] # Empty
          THEN LandingAccesses(b, x, y_check - 1) ELSE {})
    ELSE {}

(* ------------------------------- state --------------------------------- *)

\* GameBoard.__init__ with the given arguments; the letter source draws from letters.
Construct(cfg, letters, turns, keys) ==
    /\ width = cfg[1]
    /\ height = cfg[2]
    /\ destroy_count = cfg[3]
    /\ alphabet = letters
    /\ max_turn = turns
    /\ max_queue = keys
    /\ cursor = cfg[1] \div 2
    /\ board = BuildBoard(cfg[1], cfg[2])
    /\ current_letter \in letters
    /\ turn = 0
    /\ score = 0
    /\ queue = <<>>
    /\ pc = "render"
    /\ stack = <<>>
    /\ start_score = 0
    /\ log = <<>>
    /\ placed = 0
    /\ last_drop = "none"
    /\ start_count = 0
    /\ clamped = FALSE

Init == \E cfg \in Configs : Construct(cfg, LETTERS, MaxTurn, MaxQueue)

(* ------------------------------ listener ------------------------------- *)

HasChar(key) == key # "special"

\* _on_press: a valid character is put on the queue, anything else is ignored.
OnPress ==
    /\ pc # "exited"
    /\ \E key \in Keys :
         IF HasChar(key) /\ key \in ValidMoves
         THEN /\ Len(queue) < max_queue
              /\ queue' = Append(queue, key)
         ELSE queue' = queue
    /\ UNCHANGED <<params, hist, board, cursor, current_letter, turn, score, pc, stack>>

(* ----------------------------- main thread ----------------------------- *)

\* play: self.render()
Render ==
    /\ pc = "render"
    /\ pc' = "get"
    /\ clamped' = FALSE
    /\ UNCHANGED <<params, drop_hist, board, cursor, current_letter, turn, score, queue,
                 stack>>

\* Mutant: the main thread takes the key pressed last.
GotNewest(key) ==
    /\ pc = "get"
    /\ queue # <<>>
    /\ queue[Len(queue)] = key
    /\ queue' = SubSeq(queue, 1, Len(queue) - 1)

\* play: user_input = self.queue.get() returned key
Got(key) ==
    /\ pc = "get"
    /\ queue # <<>>
    /\ Head(queue) = key
    /\ queue' = Tail(queue)

CursorLeft ==
    /\ Got("h")
    /\ cursor' = IF cursor = 0 THEN cursor ELSE cursor - 1
    /\ clamped' = (cursor = 0)
    /\ pc' = "render"
    /\ UNCHANGED <<params, drop_hist, board, current_letter, turn, score, stack>>

\* Mutant: cursor_right without the test against the right edge.
CursorRightNoClamp ==
    /\ Got("l")
    /\ cursor' = cursor + 1
    /\ clamped' = FALSE
    /\ pc' = "render"
    /\ UNCHANGED <<params, drop_hist, board, current_letter, turn, score, stack>>

\* cursor_right: one column to the right unless at the right edge.
CursorRight ==
    /\ Got("l")
    /\ cursor' = IF cursor = width - 1 THEN cursor ELSE cursor + 1
    /\ clamped' = (cursor = width - 1)
    /\ pc' = "render"
    /\ UNCHANGED <<params, drop_hist, board, current_letter, turn, score, stack>>

\* drop_letter up to its call of check_and_destroy_matches.
DropLetter ==
    /\ Got("i")
    /\ turn < max_turn
    /\ start_score' = score
    /\ start_count' = Cardinality({c \in Cells : board[c] # Empty})
    /\ log' = <<>>
    /\ clamped' = FALSE
    /\ LET y_check == LandingRow(board, cursor, height - 1)
       IN  IF y_check = -1
           THEN /\ pc' = "render"
                /\ last_drop' = "full"
                /\ UNCHANGED <<board, stack, placed>>
           ELSE /\ board' = [board EXCEPT ![<<cursor, y_check>>] = current_letter]
                /\ stack' = << Frame(<< <<cursor, y_check>> >>, 1) >>
                /\ pc' = "drop"
                /\ last_drop' = "placed"
                /\ placed' = placed + 1
    /\ UNCHANGED <<params, cursor, current_letter, turn, score>>

\* One call of check_and_destroy_matches, for the next cell of the running
\* loop, up to its own loop over new_candidates.
CheckAndDestroyMatches ==
    /\ pc = "drop"
    /\ stack # <<>>
    /\ stack[Len(stack)].cands # <<>>
    /\ LET top    == stack[Len(stack)]
           cell   == Head(top.cands)
           x      == cell[1]
           y      == cell[2]
           letter == board[cell]
           depth  == top.depth
           rest   == [stack EXCEPT ![Len(stack)].cands = Tail(top.cands)]
       IN  IF letter = Empty
           THEN /\ stack' = rest
                /\ UNCHANGED <<board, score, log>>
           ELSE LET destroyed == Destroyed(board, x, y, letter)
                IN  /\ score' = score + ScoreGain(Cardinality(destroyed), depth)
                    /\ \E order \in SortedOrders(destroyed) :
                         LET r == DropAll(board, order)
                         IN  /\ board' = r.board
                             /\ log' = IF destroyed = {} THEN log
                                       ELSE Append(log, [cell |-> cell,
                                                         destroyed |-> destroyed,
                                                         depth |-> depth,
                                                         cands |-> r.cands])
                             /\ stack' = IF r.cands = <<>>
                                         THEN rest
                                         ELSE Append(rest, Frame(r.cands, NextDepth(depth)))
    /\ UNCHANGED <<params, start_score, start_count, placed, last_drop, clamped, cursor,
                 current_letter, turn, queue, pc>>

\* A call whose loop over new_candidates is exhausted returns to its caller.
Return ==
    /\ pc = "drop"
    /\ Len(stack) > 1
    /\ stack[Len(stack)].cands = <<>>
    /\ stack' = SubSeq(stack, 1, Len(stack) - 1)
    /\ UNCHANGED <<params, hist, board, cursor, current_letter, turn, score, queue, pc>>

\* Mutant: the turn counter is not incremented.
DropFinishKeepsTurn ==
    /\ pc = "drop"
    /\ Len(stack) = 1
    /\ stack[1].cands = <<>>
    /\ stack' = <<>>
    /\ current_letter' \in alphabet
    /\ pc' = "render"
    /\ UNCHANGED <<params, hist, board, cursor, score, queue, turn>>

\* drop_letter after the cascade: the next letter and the turn counter.
DropFinish ==
    /\ pc = "drop"
    /\ Len(stack) = 1
    /\ stack[1].cands = <<>>
    /\ stack' = <<>>
    /\ current_letter' \in alphabet
    /\ turn' = turn + 1
    /\ pc' = "render"
    /\ UNCHANGED <<params, hist, board, cursor, score, queue>>

QuitGame ==
    /\ Got("x")
    /\ pc' = "exited"
    /\ UNCHANGED <<params, hist, board, cursor, current_letter, turn, score, stack>>

Next ==
    \/ OnPress
    \/ Render
    \/ CursorLeft
    \/ CursorRight
    \/ DropLetter
    \/ CheckAndDestroyMatches
    \/ Return
    \/ DropFinish
    \/ QuitGame

Spec == Init /\ [][Next]_vars

\* The main thread is scheduled: a drop in progress keeps running.
Cascade == CheckAndDestroyMatches \/ Return \/ DropFinish

InitFair == \E cfg \in Configs : Construct(cfg, LETTERS, MaxTurn, MaxQueueLow)

SpecFair == InitFair /\ [][Next]_vars /\ WF_vars(Cascade)

\* A taller board, for cascades whose second run has three cells; the letter
\* source is observed to deliver only the letters of DeepLetters.
DeepLetters == {"A", "B"}

InitDeep == \E cfg \in DeepConfigs : Construct(cfg, DeepLetters, MaxTurnDeep, MaxQueueLow)

SpecDeep == InitDeep /\ [][Next]_vars

\* The tall board, with the letters of DeepLetters.
InitTall == \E cfg \in TallConfigs : Construct(cfg, DeepLetters, MaxTurnTall, MaxQueueLow)

SpecTall == InitTall /\ [][Next]_vars

\* The board where the order of equal-row destroyed cells is observable.
InitTies == \E cfg \in TiesConfigs : Construct(cfg, LETTERS, MaxTurnTies, MaxQueueLow)

SpecTies == InitTies /\ [][Next]_vars

(* ----------------------------- properties ------------------------------ *)

\* No command is in progress: the main thread is about to render, waits for
\* a key, or has left the game.
Idle == pc \in {"render", "get", "exited"}

\* Number of letters on board b.
LetterCount(b) == Cardinality({c \in Cells : b[c] # Empty})

\* Some destroying call of the current (or last) drop moved a letter down.
GravityActed == \E i \in DOMAIN log : log[i].cands # <<>>

\* No empty cell of b has a letter anywhere above it in its column.
Compact(b) ==
    \A c \in Cells : b[c] = Empty =>
        \A y2 \in 0 .. c[2] - 1 : b[<<c[1], y2>>] = Empty

\* C1: after every completed command every column is compact: no empty
\* cell has a non-empty cell above it in the same column.
C1_ColumnsCompact == Idle => Compact(board)

W_C1 == Idle /\ GravityActed /\ LetterCount(board) > 0

\* destroy_count contiguous identical letters start at cell c and run to the right.
HRunAt(b, c) ==
    /\ c[1] + destroy_count - 1 < width
    /\ \A k \in 0 .. destroy_count - 1 : b[<<c[1] + k, c[2]>>] = b[c]

\* destroy_count contiguous identical letters start at cell c and run downward.
VRunAt(b, c) ==
    /\ c[2] + destroy_count - 1 < height
    /\ \A k \in 0 .. destroy_count - 1 : b[<<c[1], c[2] + k>>] = b[c]

NoRun(b) == \A c \in Cells : b[c] # Empty => ~HRunAt(b, c) /\ ~VRunAt(b, c)

RECURSIVE Pending(_)
Pending(s) == IF s = <<>> THEN 0 ELSE Len(Head(s).cands) + 1 + Pending(Tail(s))

\* The cascade's measure (letters on the board, pending work) decreases
\* in the lexicographic order.
MeasureDecreases ==
    \/ LetterCount(board') < LetterCount(board)
    \/ /\ LetterCount(board') = LetterCount(board)
       /\ Pending(stack') < Pending(stack)

\* C3: the cascade started by drop_letter terminates: every step of the
\* recursion removes a letter or uses up pending work, and every drop in
\* progress leads to the return of drop_letter.
C3_CascadeTerminates ==
    /\ [][Cascade => MeasureDecreases]_vars
    /\ (pc = "drop") ~> (pc = "render")

W_C3 == pc = "render" /\ turn >= 1 /\ \E i \in DOMAIN log : log[i].depth >= 2

\* Column x of b has no empty cell.
ColumnFull(b, x) == \A y \in 0 .. height - 1 : b[<<x, y>>] # Empty

\* C4: a drop into a full column changes nothing: board, score, turn and
\* current letter stay as they were, and drop_letter returns normally.
C4_FullColumnDropIsNoOp ==
    [][(DropLetter /\ ColumnFull(board, cursor)) =>
          /\ UNCHANGED <<board, score, turn, current_letter, cursor>>
          /\ pc' = "render"]_vars

W_C4 == pc = "render" /\ last_drop = "full" /\ ColumnFull(board, cursor)

\* The cell the next call of check_and_destroy_matches checks.
Origin == Head(stack[Len(stack)].cands)

\* The call of check_and_destroy_matches that drop_letter makes, for the dropped cell.
FirstCheck == CheckAndDestroyMatches /\ Len(stack) = 1

\* The set destroyed by the step just taken (empty when it destroyed nothing).
DestroyedByStep == IF log' = log THEN {} ELSE log'[Len(log')].destroyed

Between(i, j) == IF i <= j THEN i .. j ELSE j .. i

\* The maximal horizontal run of c's letter through c.
HRun(b, c) ==
    {<<i, c[2]>> : i \in {i \in 0 .. width - 1 :
                            \A k \in Between(i, c[1]) : b[<<k, c[2]>>] = b[c]}}

\* The maximal run of c's letter from c downward.
VRunDown(b, c) ==
    {<<c[1], j>> : j \in {j \in c[2] .. height - 1 :
                            \A k \in c[2] .. j : b[<<c[1], k>>] = b[c]}}

\* Number of letters in column x of b.
ColumnCount(b, x) == Cardinality({y \in 0 .. height - 1 : b[<<x, y>>] # Empty})

RunsFrom(b, c, hmin, vmin) ==
    (IF Cardinality(HRun(b, c)) >= hmin THEN HRun(b, c) ELSE {})
    \cup
    (IF Cardinality(VRunDown(b, c)) >= vmin THEN VRunDown(b, c) ELSE {})

\* A step of check_and_destroy_matches on a letter destroys exactly the set D.
StepDestroys(D) ==
    /\ DestroyedByStep = D
    /\ LetterCount(board') = LetterCount(board) - Cardinality(D)
    /\ D = {} => board' = board

SameRow(D) == \A c, d \in D : c[2] = d[2]

SameColumn(D) == \A c, d \in D : c[1] = d[1]

Range(seq) == {seq[i] : i \in DOMAIN seq}

\* The score the logged destructions of the current drop add up to.
RECURSIVE LogGain(_)
LogGain(l) ==
    IF l = <<>> THEN 0
    ELSE 10 * Cardinality(Head(l).destroyed) * Head(l).depth + LogGain(Tail(l))

\* Levels of the logged destructions: only the check of the dropped cell is
\* at level 1, and a deeper check is of a cell that a destruction one level
\* up disturbed.
LevelsNest ==
    \A i \in DOMAIN log :
        IF log[i].depth = 1 THEN i = 1
        ELSE \E j \in 1 .. i - 1 : /\ log[j].depth = log[i].depth - 1
                                   /\ log[i].cell \in Range(log[j].cands)

\* C8: a step that destroys a set D at cascade level d adds exactly
\* 10 * |D| * d to the score, the level being 1 for the dropped cell and one
\* more than the disturbing check's for a cell disturbed by gravity (the
\* nesting depth of the call); a drop adds the sum over its steps.
C8_CascadeScore ==
    /\ [][CheckAndDestroyMatches =>
            /\ score' = score + 10 * (LetterCount(board) - LetterCount(board')) * Len(stack)
            /\ Cardinality(DestroyedByStep) = LetterCount(board) - LetterCount(board')]_vars
    /\ [](LevelsNest /\ score = start_score + LogGain(log))

\* A first clear of 3 cells and one second run of 3 cells add 90.
W_C8 ==
    /\ pc = "render"
    /\ Len(log) = 2
    /\ Cardinality(log[1].destroyed) = 3 /\ log[1].depth = 1
    /\ Cardinality(log[2].destroyed) = 3 /\ log[2].depth = 2
    /\ score = start_score + 90

\* C9: the score is never negative and no step decreases it.
C9_ScoreMonotonic ==
    /\ [](score >= 0)
    /\ [][score' >= score]_vars

W_C9 == Idle /\ start_score > 0 /\ score > start_score

\* C10: the turn counter grows by exactly 1 when a drop that placed a
\* letter completes and is unchanged by every other step, so between
\* commands it equals the number of letters placed.
C10_TurnCountsPlacedDrops ==
    /\ [][IF DropFinish THEN turn' = turn + 1 ELSE turn' = turn]_vars
    /\ [](Idle => turn = placed)

W_C10 ==
    /\ Idle
    /\ last_drop = "full"
    /\ turn >= 2
    /\ score > 0
    /\ cursor # width \div 2

\* The largest row of column x of b that holds an empty cell.
LowestEmptyRow(b, x) ==
    CHOOSE y \in 0 .. height - 1 :
        /\ b[<<x, y>>] = Empty
        /\ \A y2 \in y + 1 .. height - 1 : b[<<x, y2>>] # Empty

\* C11: a drop into a column that is not full writes the current letter
\* into the largest-row empty cell of the cursor's column and changes no
\* other cell, and a call of the cascade that destroys nothing leaves the
\* board as it is, so that a drop without destruction changes exactly the
\* landing cell.
C11_DropPlacesAtLandingRow ==
    /\ [][(DropLetter /\ ~ColumnFull(board, cursor)) =>
             board' = [board EXCEPT
                          ![<<cursor, LowestEmptyRow(board, cursor)>>] = current_letter]]_vars
    /\ [][(pc = "drop" /\ DestroyedByStep = {}) => board' = board]_vars

W_C11 ==
    /\ pc = "render"
    /\ last_drop = "placed"
    /\ log = <<>>
    /\ LetterCount(board) = start_count + 1
    /\ \E y \in 0 .. height - 2 :
          /\ board[<<cursor, y>>] # Empty
          /\ y = 0 \/ board[<<cursor, y - 1>>] = Empty

\* C12: the cursor is always a column of the board, 0 <= cursor <= width - 1;
\* cursor_left at column 0 and cursor_right at column width - 1 leave it
\* where it is, and every other cursor move changes it by exactly one.
C12_CursorInRange ==
    /\ [](cursor \in 0 .. width - 1)
    /\ [][CursorLeft =>
             cursor' = IF cursor = 0 THEN 0 ELSE cursor - 1]_vars
    /\ [][CursorRight =>
             cursor' = IF cursor = width - 1 THEN width - 1 ELSE cursor + 1]_vars

W_C12 == clamped /\ width >= 2 /\ cursor = width - 1 /\ turn >= 1

\* The call check_and_destroy_matches(x, y, letter) that runs next reads
\* and writes cells of the board only.
CheckInRange ==
    LET cell   == Origin
        letter == board[cell]
        D      == Destroyed(board, cell[1], cell[2], letter)
    IN  letter # Empty =>
          /\ LookLeftReads(board, cell[1], cell[2], letter) \subseteq Cells
          /\ LookRightReads(board, cell[1], cell[2], letter) \subseteq Cells
          /\ LookDownReads(board, cell[1], cell[2], letter) \subseteq Cells
          /\ D \subseteq Cells
          /\ \A order \in SortedOrders(D) : DropAllAccesses(board, order) \subseteq Cells

\* C13: the board holds exactly one entry for every coordinate of the
\* width x height grid, and every read and write of the board uses a
\* coordinate of the grid: drop_letter's scan and placement, the cells
\* handed to check_and_destroy_matches, its three scans, the destroyed
\* cells and every access of drop_supported.
C13_BoardAccessInRange ==
    /\ DOMAIN board = Cells
    /\ Idle => LandingAccesses(board, cursor, height - 1) \subseteq Cells
    /\ \A i \in DOMAIN stack : Range(stack[i].cands) \subseteq Cells
    /\ (pc = "drop" /\ stack[Len(stack)].cands # <<>>) => CheckInRange

W_C13 ==
    /\ pc = "drop"
    /\ stack[Len(stack)].cands # <<>>
    /\ Origin \in {<<0, 0>>, <<width - 1, 0>>}
    /\ board[Origin] # Empty
    /\ Destroyed(board, Origin[1], Origin[2], board[Origin]) # {}

\* The maximal contiguous run of c's letter through c in column c[1] of b,
\* upward and downward.
VRunThrough(b, c) ==
    {<<c[1], j>> : j \in {k \in 0 .. height - 1 :
                             \A m \in Between(k, c[2]) : b[<<c[1], m>>] = b[c]}}

\* C14: whenever a call destroys a vertical run, the run it destroys is the
\* maximal run of the origin's letter through the origin in both
\* directions: the same-letter cells directly above the origin are
\* destroyed in the same step as the cells below it.
CE_C14 ==
    [][(/\ CheckAndDestroyMatches
        /\ board[Origin] # Empty
        /\ Cardinality(VRunDown(board, Origin)) >= destroy_count)
       => VRunThrough(board, Origin) \subseteq DestroyedByStep]_vars

\* drop_letter has placed its letter and is about to check the landing cell.
DropPlaced == pc = "drop" /\ log = <<>> /\ Len(stack) = 1 /\ stack[1].cands # <<>>

\* C15: the final board and the score of a drop are the same for every
\* order in which the equal-row cells of a destruction set are processed.
CE_C15 == DropPlaced => Cardinality(Outcomes(board, stack, score)) = 1

\* One call drop_supported(d_cell) on board b and the calls it makes of
\* itself: the board before, the cell, the board after and the returned list.
RECURSIVE CallsOf(_, _)
CallsOf(b, d_cell) ==
    LET r     == DropSupported(b, d_cell)
        above == <<d_cell[1], d_cell[2] - 1>>
        this  == [before |-> b, cell |-> d_cell, after |-> r.board, cands |-> r.cands]
    IN  IF d_cell[2] = 0 \/ b[above] = Empty
        THEN {this}
        ELSE {this} \cup CallsOf([b EXCEPT ![d_cell] = b[above]], above)

\* The calls of drop_supported made by the loop over sorted(destroyed), in the given order.
RECURSIVE LoopCalls(_, _)
LoopCalls(b, order) ==
    IF order = <<>> THEN {}
    ELSE CallsOf(b, Head(order)) \cup
         LoopCalls(DropSupported(b, Head(order)).board, Tail(order))

\* The calls of drop_supported that the call of check_and_destroy_matches
\* about to run makes, for every order of its destroyed set.
PendingCalls ==
    IF pc = "drop" /\ stack[Len(stack)].cands # <<>> /\ board[Origin] # Empty
    THEN UNION { LoopCalls(board, order) :
                   order \in SortedOrders(Destroyed(board, Origin[1], Origin[2],
                                                    board[Origin])) }
    ELSE {}

\* The cells whose stored symbol the call changed.
Changed(call) == {c \in Cells : call.before[c] # call.after[c]}

\* The returned list runs from the given cell upward through adjacent rows.
ClosestFirst(call) ==
    \A i \in DOMAIN call.cands : call.cands[i] = <<call.cell[1], call.cell[2] - (i - 1)>>

\* The cell the call empties: the topmost cell of the stack that fell.
Emptied(call) == <<call.cell[1], call.cell[2] - Len(call.cands)>>

\* The cells at or above the given cell that have a letter directly above
\* them, and so has every cell between them and the given cell.
Receivers(call) ==
    {<<call.cell[1], r>> : r \in {q \in 1 .. call.cell[2] :
        \A k \in q .. call.cell[2] : call.before[<<call.cell[1], k - 1>>] # Empty}}

\* C16 as stated: drop_supported returns every cell whose stored symbol
\* changed during the collapse, the cell closest to the given cell first.
CE_C16 ==
    \A call \in PendingCalls :
        Range(call.cands) = Changed(call) /\ ClosestFirst(call)

\* C16, amended: drop_supported returns the cells that received the symbol
\* of the cell above them, from the given cell upward; the cell the collapse
\* empties is not returned, and every cell whose symbol changed is a
\* returned cell or the emptied cell.
C16_ReturnsReceivingCells ==
    \A call \in PendingCalls :
        /\ ClosestFirst(call)
        /\ Range(call.cands) = Receivers(call)
        /\ \A c \in Range(call.cands) : call.after[c] = call.before[<<c[1], c[2] - 1>>]
        /\ Emptied(call) \notin Range(call.cands)
        /\ call.after[Emptied(call)] = Empty
        /\ Changed(call) \subseteq Range(call.cands) \cup {Emptied(call)}

W_C16 ==
    \E call \in PendingCalls :
        /\ Len(call.cands) >= 2
        /\ Emptied(call) \in Changed(call)
        /\ Range(call.cands) \cap Changed(call) # {}
        /\ Range(call.cands) \ Changed(call) # {}

\* C17: when the horizontal run through the checked cell and the vertical
\* run the call finds from it both qualify, with h and v cells, the checked
\* cell is counted once: the call destroys h + v - 1 cells, adds
\* 10 * (h + v - 1) * depth to the score, and its gravity loop visits every
\* destroyed cell exactly once, removing exactly h + v - 1 letters.
C17_SeedCountedOnce ==
    [][(/\ CheckAndDestroyMatches
        /\ board[Origin] # Empty
        /\ Cardinality(HRun(board, Origin)) >= destroy_count
        /\ Cardinality(VRunDown(board, Origin)) >= destroy_count)
       => LET n == Cardinality(HRun(board, Origin))
                   + Cardinality(VRunDown(board, Origin)) - 1
          IN  /\ Cardinality(DestroyedByStep) = n
              /\ score' = score + 10 * n * stack[Len(stack)].depth
              /\ LetterCount(board') = LetterCount(board) - n
              /\ \A order \in SortedOrders(DestroyedByStep) :
                    Len(order) = n /\ Range(order) = DestroyedByStep]_vars

W_C17 ==
    /\ pc = "render"
    /\ \E i \in DOMAIN log :
          /\ log[i].cell \in log[i].destroyed
          /\ ~SameRow(log[i].destroyed)
          /\ ~SameColumn(log[i].destroyed)
          /\ score >= start_score + 10 * (2 * destroy_count - 1) * log[i].depth

\* The step applies the command key as play does.
Applies(key) ==
    CASE key = "h" -> CursorLeft
      [] key = "l" -> CursorRight
      [] key = "i" -> DropLetter
      [] key = "x" -> QuitGame
      [] OTHER     -> FALSE

\* The step put one valid key at the end of the queue.
Appended ==
    /\ Len(queue') = Len(queue) + 1
    /\ SubSeq(queue', 1, Len(queue)) = queue
    /\ queue'[Len(queue')] \in ValidMoves

\* C18: a drop runs to its fixed point before any other command takes
\* effect.  The render step sees no cascade in progress; a step that adds
\* to the queue, which only the listener does, appends one key and leaves
\* board, cursor, score and turn alone; while a drop runs the queue only
\* grows and the cursor rests; and a key leaves the queue only at the head,
\* when the main thread waits for one, the step being that key's command.
C18_DropRunsToFixedPoint ==
    /\ [](pc = "render" => stack = <<>>)
    /\ [][/\ Len(queue') > Len(queue) =>
                Appended /\ UNCHANGED <<board, cursor, score, turn, pc, stack>>
          /\ Len(queue') = Len(queue) => queue' = queue
          /\ Len(queue') < Len(queue) =>
                pc = "get" /\ queue' = Tail(queue) /\ Applies(Head(queue))
          /\ pc = "drop" => cursor' = cursor /\ Len(queue') >= Len(queue)]_vars

W_C18 ==
    /\ pc = "drop"
    /\ Len(stack) >= 2
    /\ Len(queue) = 2
    /\ queue[1] # queue[2]

\* Column x of b has no empty cell below a letter.
ColumnCompact(b, x) ==
    \A y \in 0 .. height - 1 : b[<<x, y>>] = Empty =>
        \A y2 \in 0 .. y - 1 : b[<<x, y2>>] = Empty

\* The call left every other column and the rows below its cell as they were,
\* and moved every symbol above its cell down by one row.
ShiftsColumnAbove(call) ==
    LET x == call.cell[1]
        y == call.cell[2]
    IN  /\ \A c \in Cells : (c[1] # x \/ c[2] > y) => call.after[c] = call.before[c]
        /\ \A r \in 1 .. y : call.after[<<x, r>>] = call.before[<<x, r - 1>>]
        /\ call.after[<<x, 0>>] = Empty

\* C19: one call drop_supported((x, y)) on a compact column changes only
\* cells of column x at rows <= y: the other columns and the rows below y
\* are unchanged, and the symbols above row y keep their order, each one row
\* further down.
C19_DropSupportedFrame ==
    \A call \in PendingCalls :
        ColumnCompact(call.before, call.cell[1]) => ShiftsColumnAbove(call)

W_C19 ==
    \E call \in PendingCalls :
        /\ ColumnCompact(call.before, call.cell[1])
        /\ call.cell[2] < height - 1
        /\ call.before[<<call.cell[1], 0>>] # Empty
        /\ call.cands # <<>>
        /\ \E c \in Cells : c[1] # call.cell[1] /\ call.before[c] # Empty
        /\ call.after # call.before

\* Number of cells destroyed by the logged calls of the current drop.
RECURSIVE LogDestroyed(_)
LogDestroyed(l) ==
    IF l = <<>> THEN 0 ELSE Cardinality(Head(l).destroyed) + LogDestroyed(Tail(l))

\* C20: letters are conserved by a drop: once a drop that placed a letter
\* has returned, the number of letters on the board is the number before
\* the drop, plus 1, minus the number of cells destroyed by all calls of its
\* cascade; a drop that leaves the score unchanged adds exactly one letter.
C20_LettersConserved ==
    (Idle /\ last_drop = "placed") =>
        /\ LetterCount(board) = start_count + 1 - LogDestroyed(log)
        /\ score = start_score => LetterCount(board) = start_count + 1

W_C20 ==
    /\ pc = "render"
    /\ last_drop = "placed"
    /\ Len(log) >= 2
    /\ GravityActed
    /\ LogDestroyed(log) >= 2 * destroy_count
    /\ LetterCount(board) = start_count + 1 - LogDestroyed(log)
    /\ LetterCount(board) >= 1

=============================================================================
